---- MODULE Spec2Model ----
(***************************************************************************)
(* Model of the ebaplanner event backend: the session-gated Firestore/GCS  *)
(* server (src/unnamed/part_002), the password check of the earlier        *)
(* revision (src/server.js) and the date normalizer of the spreadsheet     *)
(* revision (src/unnamed/part_000).                                        *)
(*                                                                         *)
(* Texts are sequences of one-character strings, so that parsing and       *)
(* formatting are computed and not assumed.  Instants are whole days since *)
(* 1970-01-01 (every instant the handlers store is a UTC midnight).        *)
(***************************************************************************)
EXTENDS Integers, Sequences, FiniteSets, TLC

\* ------------------------------------------------------------------ texts

\* JavaScript undefined (an absent body field), kept apart from the empty text.
Undefined == <<"undefined">>

\* A test that takes the empty text for a value.
FalsyAbsent(v) == v = Undefined

\* !v for a text or undefined value.
Falsy(v) == v = Undefined \/ v = <<>>

\* v || ''
OrEmpty(v) == IF Falsy(v) THEN <<>> ELSE v

DigitChars == {"0", "1", "2", "3", "4", "5", "6", "7", "8", "9"}

DigitVal(c) ==
  CASE c = "0" -> 0 [] c = "1" -> 1 [] c = "2" -> 2 [] c = "3" -> 3
    [] c = "4" -> 4 [] c = "5" -> 5 [] c = "6" -> 6 [] c = "7" -> 7
    [] c = "8" -> 8 [] c = "9" -> 9

DigitChar(n) ==
  CASE n = 0 -> "0" [] n = 1 -> "1" [] n = 2 -> "2" [] n = 3 -> "3"
    [] n = 4 -> "4" [] n = 5 -> "5" [] n = 6 -> "6" [] n = 7 -> "7"
    [] n = 8 -> "8" [] n = 9 -> "9"

\* parseInt(s, 10) of a text of digits.
RECURSIVE ParseInt(_)
ParseInt(s) ==
  IF s = <<>> THEN 0
  ELSE 10 * ParseInt(SubSeq(s, 1, Len(s) - 1)) + DigitVal(s[Len(s)])

\* String(n) of a natural number.
RECURSIVE NumText(_)
NumText(n) ==
  IF n < 10 THEN <<DigitChar(n)>>
  ELSE NumText(n \div 10) \o <<DigitChar(n % 10)>>

\* The number as it is, without a leading zero.
SliceAll(n) == NumText(n)

\* ('0' + n).slice(-2)
Slice2(n) ==
  LET t == <<"0">> \o NumText(n) IN SubSeq(t, Len(t) - 1, Len(t))

\* padStart(w, '0') as toISOString pads the year, the month and the day.
RECURSIVE PadStart(_, _)
PadStart(t, w) == IF Len(t) >= w THEN t ELSE PadStart(<<"0">> \o t, w)

\* The number of leading digits of s, at most max (a greedy \d{1,max}).
RECURSIVE DigitRun(_, _)
DigitRun(s, max) ==
  IF max = 0 \/ s = <<>> \/ Head(s) \notin DigitChars THEN 0
  ELSE 1 + DigitRun(Tail(s), max - 1)

Drop(s, n) == SubSeq(s, n + 1, Len(s))

\* Match of  (\d{lo1,hi1}) sep (\d{lo2,hi2}) sep (\d{lo3,hi3})  at the start of
\* s, anchored at the end as well when toEnd; <<>> when there is no match, else
\* the three captured numbers.  The groups are separated by a non-digit, so the
\* greedy match is the only one.
MatchThree(s, sep, lo1, hi1, lo2, hi2, lo3, hi3, toEnd) ==
  LET n1 == DigitRun(s, hi1)
      r1 == Drop(s, n1)
      n2 == IF r1 # <<>> /\ Head(r1) = sep THEN DigitRun(Tail(r1), hi2) ELSE 0
      r2 == IF r1 # <<>> THEN Drop(Tail(r1), n2) ELSE <<>>
      n3 == IF r2 # <<>> /\ Head(r2) = sep THEN DigitRun(Tail(r2), hi3) ELSE 0
      r3 == IF r2 # <<>> THEN Drop(Tail(r2), n3) ELSE <<>>
  IN IF /\ n1 >= lo1
        /\ r1 # <<>> /\ Head(r1) = sep /\ n2 >= lo2
        /\ r2 # <<>> /\ Head(r2) = sep /\ n3 >= lo3
        /\ (toEnd => r3 = <<>>)
     THEN << ParseInt(SubSeq(s, 1, n1)),
             ParseInt(SubSeq(Tail(r1), 1, n2)),
             ParseInt(SubSeq(Tail(r2), 1, n3)) >>
     ELSE <<>>

\* ------------------------------------------------------------- calendar

\* Days from 1970-01-01 to the first day of month m (1..12) of year y, plus
\* d - 1: ECMAScript MakeDay, which lets a day past the end of the month run
\* over into the next month.
MakeDay(y, m, d) ==
  LET yy  == IF m <= 2 THEN y - 1 ELSE y
      era == yy \div 400
      yoe == yy - era * 400
      mp  == IF m > 2 THEN m - 3 ELSE m + 9
      doy == (153 * mp + 2) \div 5 + d - 1
      doe == yoe * 365 + yoe \div 4 - yoe \div 100 + doy
  IN era * 146097 + doe - 719468

\* The calendar day <<y, m, d>> of a day number (Date.prototype.toISOString
\* reads the UTC year, month and day).
CivilFromDays(z) ==
  LET zz  == z + 719468
      era == zz \div 146097
      doe == zz - era * 146097
      yoe == (doe - doe \div 1460 + doe \div 36524 - doe \div 146096) \div 365
      doy == doe - (365 * yoe + yoe \div 4 - yoe \div 100)
      mp  == (5 * doy + 2) \div 153
      d   == doy - (153 * mp + 2) \div 5 + 1
      m   == IF mp < 10 THEN mp + 3 ELSE mp - 9
      y   == yoe + era * 400 + (IF m <= 2 THEN 1 ELSE 0)
  IN <<y, m, d>>

\* The date text of a clock one day behind UTC midnight.
IsoDateTextBehind(z) ==
  LET c == CivilFromDays(z - 1)
  IN PadStart(NumText(c[1]), 4) \o <<"-">> \o PadStart(NumText(c[2]), 2)
       \o <<"-">> \o PadStart(NumText(c[3]), 2)

\* date.toISOString().split('T')[0] for a year of 0..9999
IsoDateText(z) ==
  LET c == CivilFromDays(z)
  IN PadStart(NumText(c[1]), 4) \o <<"-">> \o PadStart(NumText(c[2]), 2)
       \o <<"-">> \o PadStart(NumText(c[3]), 2)

\* A Firestore Timestamp is <<days>>; null is <<>>.
NullTimestamp == <<>>

\* The date part of an ECMAScript date-time text: YYYY, YYYY-MM or YYYY-MM-DD
\* with exactly that many digits, a month of 01..12 and a day of 01..31, as
\* <<y, m, d>> (an absent month or day is 1); <<>> for any other text.
IsoDatePart(s) ==
  LET all == Len(s)
      n1  == DigitRun(s, all)
      r1  == Drop(s, n1)
      n2  == IF r1 # <<>> /\ Head(r1) = "-" THEN DigitRun(Tail(r1), all) ELSE 0
      r2  == IF r1 # <<>> THEN Drop(Tail(r1), n2) ELSE <<>>
      n3  == IF r2 # <<>> /\ Head(r2) = "-" THEN DigitRun(Tail(r2), all) ELSE 0
      r3  == IF r2 # <<>> THEN Drop(Tail(r2), n3) ELSE <<>>
      y   == ParseInt(SubSeq(s, 1, n1))
      m   == IF r1 = <<>> THEN 1 ELSE ParseInt(SubSeq(Tail(r1), 1, n2))
      d   == IF r2 = <<>> THEN 1 ELSE ParseInt(SubSeq(Tail(r2), 1, n3))
      ok  == /\ n1 = 4
             /\ r1 # <<>> => (Head(r1) = "-" /\ n2 = 2 /\ m >= 1 /\ m <= 12)
             /\ r2 # <<>> => (Head(r2) = "-" /\ n3 = 2 /\ d >= 1 /\ d <= 31)
             /\ r3 = <<>>
  IN IF ok THEN <<y, m, d>> ELSE <<>>

\* new Date(s + 'T00:00:00Z') followed by Timestamp.fromDate, which throws for
\* an Invalid Date and for an instant before year 1: Throw or <<days>>.
\* With the time part appended the text is a date only when s is the date part
\* of an ECMAScript date-time text; in every other text the appended 'T' follows
\* a number the legacy parser has read, or no day number is read at all, and
\* both make the date invalid.
Throw == <<0, 0>>

\* A conversion that reads the text with the year-month-day pattern of the
\* date normalizer.
TimestampLoose(s) ==
  LET m == MatchThree(s, "-", 4, 4, 1, 2, 1, 2, FALSE)
  IN IF m # <<>> THEN <<MakeDay(m[1], m[2], m[3])>> ELSE Throw

\* A conversion that stores no date for a text that is not a date.
TimestampOrNull(s) ==
  LET p == IsoDatePart(s)
  IN IF p # <<>> /\ p[1] >= 1 THEN <<MakeDay(p[1], p[2], p[3])>> ELSE <<>>

TimestampFromText(s) ==
  LET p == IsoDatePart(s)
  IN IF p # <<>> /\ p[1] >= 1 THEN <<MakeDay(p[1], p[2], p[3])>> ELSE Throw

\* new Date(s) of the engine's legacy parser for a text of three numbers
\* separated by '.', '/' or '-': the numbers are year-month-day when the first
\* is no day of 1..31 and month-day-year otherwise, a year below 50 is 20xx and
\* one below 100 is 19xx, and the month must be 1..12 and the day 1..31.
\* <<days>>, or <<>> for an Invalid Date.
LegacyDate(s) ==
  LET seps == {".", "/", "-"}
      all  == Len(s)
      n1   == DigitRun(s, all)
      r1   == Drop(s, n1)
      n2   == IF r1 # <<>> /\ Head(r1) \in seps THEN DigitRun(Tail(r1), all) ELSE 0
      r2   == IF r1 # <<>> THEN Drop(Tail(r1), n2) ELSE <<>>
      n3   == IF r2 # <<>> /\ Head(r2) \in seps THEN DigitRun(Tail(r2), all) ELSE 0
      r3   == IF r2 # <<>> THEN Drop(Tail(r2), n3) ELSE <<>>
      c1   == ParseInt(SubSeq(s, 1, n1))
      c2   == IF r1 = <<>> THEN 0 ELSE ParseInt(SubSeq(Tail(r1), 1, n2))
      c3   == IF r2 = <<>> THEN 0 ELSE ParseInt(SubSeq(Tail(r2), 1, n3))
      ymd  == ~(c1 >= 1 /\ c1 <= 31)
      yr   == IF ymd THEN c1 ELSE c3
      mo   == IF ymd THEN c2 ELSE c1
      dy   == IF ymd THEN c3 ELSE c2
      year == IF yr <= 49 THEN yr + 2000 ELSE IF yr <= 99 THEN yr + 1900 ELSE yr
      ok   == /\ n1 >= 1 /\ n2 >= 1 /\ n3 >= 1 /\ r3 = <<>>
              /\ mo >= 1 /\ mo <= 12 /\ dy >= 1 /\ dy <= 31
  IN IF ok THEN <<MakeDay(year, mo, dy)>> ELSE <<>>

\* new Date(s) for a text of digits, separators and words that are no month,
\* zone or am/pm names: a date-time date part is UTC midnight of that day, a
\* text of three numbers goes to the legacy parser (local time), any other
\* text is an Invalid Date.  The server runs in UTC (the image of
\* src/Dockerfile sets no time zone), so local and UTC days agree.
NewDate(s) ==
  LET p == IsoDatePart(s)
  IN IF p # <<>> THEN <<MakeDay(p[1], p[2], p[3])>> ELSE LegacyDate(s)

\* String.prototype.trim for blanks.
RECURSIVE TrimStart(_)
TrimStart(s) == IF s # <<>> /\ Head(s) = " " THEN TrimStart(Tail(s)) ELSE s

RECURSIVE TrimEnd(_)
TrimEnd(s) ==
  IF s # <<>> /\ s[Len(s)] = " " THEN TrimEnd(SubSeq(s, 1, Len(s) - 1)) ELSE s

Trim(s) == TrimEnd(TrimStart(s))

\* JavaScript null, as the result of the date parsers.
Null == <<"null">>

\* `${y}-${('0' + m).slice(-2)}-${('0' + d).slice(-2)}`
YmdText(y, m, d) == NumText(y) \o <<"-">> \o Slice2(m) \o <<"-">> \o Slice2(d)

\* A range check that takes every year, month and day.
InRangeAlways(y, m, d) == TRUE

\* 1900 < y, 1 <= m <= 12, 1 <= d <= 31
InRange(y, m, d) == y > 1900 /\ m >= 1 /\ m <= 12 /\ d >= 1 /\ d <= 31

\* The Date Normalizer of the spreadsheet server: D.M.YYYY, then a YYYY-M-D
\* prefix, then M/D/YYYY, then new Date(); Null when all fail.
parseAndFormatDate(dateValue) ==
  IF Falsy(dateValue) THEN Null
  ELSE
    LET dateStr == Trim(dateValue)
        dmy == MatchThree(dateStr, ".", 1, 2, 1, 2, 4, 4, TRUE)
        ymd == MatchThree(dateStr, "-", 4, 4, 1, 2, 1, 2, FALSE)
        mdy == MatchThree(dateStr, "/", 1, 2, 1, 2, 4, 4, TRUE)
        pd  == NewDate(dateStr)
    IN IF dateStr = <<>> THEN Null
       ELSE IF dmy # <<>> /\ InRange(dmy[3], dmy[2], dmy[1])
         THEN YmdText(dmy[3], dmy[2], dmy[1])
       ELSE IF ymd # <<>> /\ InRange(ymd[1], ymd[2], ymd[3])
         THEN YmdText(ymd[1], ymd[2], ymd[3])
       ELSE IF mdy # <<>> /\ InRange(mdy[3], mdy[1], mdy[2])
         THEN YmdText(mdy[3], mdy[1], mdy[2])
       ELSE IF pd # <<>>
         THEN LET c == CivilFromDays(pd[1]) IN YmdText(c[1], c[2], c[3])
       ELSE Null

\* Date.UTC(year, month - 1, day) as a day number: a month outside 1..12 and
\* a day outside the month run over into the neighbouring months and years,
\* and a year of 0..99 is taken as 1900 + year.
DateUTC(y, m, d) ==
  LET yy == IF y <= 99 THEN 1900 + y ELSE y
      mm == m - 1
  IN MakeDay(yy + (mm \div 12), (mm % 12) + 1, d)

\* parseSheetDate of the import script: the same four strategies as the Date
\* Normalizer, without a range check; <<days>>, or <<>> for null.
parseSheetDate(dateValue) ==
  IF Falsy(dateValue) THEN <<>>
  ELSE
    LET dateStr == Trim(dateValue)
        dmy == MatchThree(dateStr, ".", 1, 2, 1, 2, 4, 4, TRUE)
        ymd == MatchThree(dateStr, "-", 4, 4, 1, 2, 1, 2, FALSE)
        mdy == MatchThree(dateStr, "/", 1, 2, 1, 2, 4, 4, TRUE)
    IN IF dateStr = <<>> THEN <<>>
       ELSE IF dmy # <<>> THEN <<DateUTC(dmy[3], dmy[2], dmy[1])>>
       ELSE IF ymd # <<>> THEN <<DateUTC(ymd[1], ymd[2], ymd[3])>>
       ELSE IF mdy # <<>> THEN <<DateUTC(mdy[3], mdy[1], mdy[2])>>
       ELSE NewDate(dateStr)

\* ------------------------------------------------------ bounds and inputs

\* The clock runs from 0 to MaxTime, in ticks of half an hour.
MaxTime == 2

\* The store assigns at most MaxEvents document ids.
MaxEvents == 2

\* The specifications that follow one record through every outcome of its
\* requests let the store assign at most MaxEdited ids.
MaxEdited == 1

\* cookie.maxAge, one hour, in ticks of the clock.
MaxAge == 2

Clients == {"c1", "c2"}

Secret == <<"p", "w">>

\* The passwords a caller sends: none, the empty one, the secret, another one.
Passwords == {Undefined, <<>>, Secret, <<"x">>}

\* The values of process.env.APP_PASSWORD: unset, or the secret.
Configured == {Undefined, Secret}

Titles == {Undefined, <<>>, <<"F">>}

StartTimes == {<<"1", "0", ":", "0", "0">>}

\* The eventDate texts of requests: absent, empty, 2025-06-01, 2025-02-31,
\* 2025-06, 2025-6-1, 1.6.2025, 6/1/2025 and not-a-date.
DateTexts ==
  { Undefined, <<>>,
    <<"2", "0", "2", "5", "-", "0", "6", "-", "0", "1">>,
    <<"2", "0", "2", "5", "-", "0", "2", "-", "3", "1">>,
    <<"2", "0", "2", "5", "-", "0", "6">>,
    <<"2", "0", "2", "5", "-", "6", "-", "1">>,
    <<"1", ".", "6", ".", "2", "0", "2", "5">>,
    <<"6", "/", "1", "/", "2", "0", "2", "5">>,
    <<"n", "o", "t", "-", "a", "-", "d", "a", "t", "e">> }

IsoDate == <<"2", "0", "2", "5", "-", "0", "6", "-", "0", "1">>
NotADate == <<"n", "o", "t", "-", "a", "-", "d", "a", "t", "e">>

\* req.file: none, or an upload named "a b".
NoFile == Undefined
Files == {NoFile, <<"a", " ", "b">>}

EventIds == 1..MaxEvents

\* ------------------------------------------------------------------ state

VARIABLES
  pending,       \* the update and the delete request that are under way
  APP_PASSWORD,  \* the configured secret, fixed at start
  now,           \* the clock, Date.now() and the store's server time
  sessions,      \* the session store: per client, whether its session is kept
  cookie,        \* per client, the session cookie it holds
  docs,          \* the events collection: per id, the document
  nextId,        \* the number of document ids assigned so far
  blobs,         \* the names of the objects in the bucket
  resp           \* the last request and its response

vars == <<pending, APP_PASSWORD, now, sessions, cookie, docs, nextId, blobs, resp>>

GCS_BUCKET_NAME == "ebaplanner_event_images"

\* An imageUrl value: undefined (no field), null, or a public URL of an object.
NoImage == [kind |-> "undefined", bucket |-> "", object |-> <<>>]
NullImage == [kind |-> "null", bucket |-> "", object |-> <<>>]

\* format(`https://storage.googleapis.com/${bucket.name}/${blob.name}`)
PublicUrl(object) == [kind |-> "url", bucket |-> GCS_BUCKET_NAME, object |-> object]

NoDoc ==
  [exists |-> FALSE, title |-> <<>>, eventDate |-> NullTimestamp,
   startTime |-> <<>>, eventType |-> <<>>, imageUrl |-> NoImage, createdAt |-> 0]

NoSession == [exists |-> FALSE, isAuthenticated |-> FALSE]
NoCookie == [set |-> FALSE, expires |-> 0]

NoResp ==
  [op |-> "none", client |-> "", id |-> 0, status |-> 0, msg |-> "",
   title |-> Undefined, date |-> Undefined, flag |-> FALSE, warned |-> FALSE,
   removed |-> FALSE, result |-> Undefined,
   fileUrl |-> NoImage]

Response(op, c, id, status, msg, date, flag) ==
  [op |-> op, client |-> c, id |-> id, status |-> status, msg |-> msg,
   title |-> Undefined, date |-> date, flag |-> flag, warned |-> FALSE,
   removed |-> FALSE, result |-> Undefined,
   fileUrl |-> NoImage]

\* The answer to a request whose body has a title.
Titled(r, title) == [r EXCEPT !.title = title]

\* An update request under way: where it stands (idle when none is under
\* way), its path id, body and file, whether its get found the document, and
\* imageUrlToUpdate.
NoPut ==
  [pc |-> "idle", client |-> "", id |-> 0, title |-> Undefined,
   date |-> Undefined,
   startTime |-> Undefined, file |-> Undefined, found |-> FALSE,
   imageUrl |-> NoImage, imageUrlToUpdate |-> NoImage]

\* A delete request under way: where it stands, its path id, whether its get
\* found the document, and eventData.imageUrl.
NoDelete ==
  [pc |-> "idle", client |-> "", id |-> 0, found |-> FALSE, imageUrl |-> NoImage]

Init ==
  /\ pending = [put |-> NoPut, del |-> NoDelete]
  /\ APP_PASSWORD \in Configured
  /\ now = 0
  /\ sessions = [c \in Clients |-> NoSession]
  /\ cookie = [c \in Clients |-> NoCookie]
  /\ docs = [i \in EventIds |-> NoDoc]
  /\ nextId = 0
  /\ blobs = {}
  /\ resp = NoResp

\* --------------------------------------------------------------- sessions

\* A request that never finds its session.
ReqSessionLost(c) == NoSession

\* A session that outlives the Expires time of its cookie.
ReqSessionNoExpiry(c) ==
  IF cookie[c].set /\ sessions[c].exists THEN sessions[c] ELSE NoSession

\* The session middleware: req.session is the stored session the request's
\* cookie names, or a new, empty one.  A client sends its cookie until the
\* cookie's Expires time; a session id is known to its client only, so the
\* store is kept per client: sessions[c] is the stored session of the id in
\* c's cookie (a session whose id no cookie names any more is out of reach).
ReqSession(c) ==
  IF cookie[c].set /\ now < cookie[c].expires /\ sessions[c].exists
  THEN sessions[c]
  ELSE NoSession

\* A cookie issued again by every response that saves the session.
SetCookieRolling(c) == [set |-> TRUE, expires |-> now + MaxAge]

\* The Set-Cookie of a response that saved the session: a new cookie with
\* Expires = now + maxAge for a new session; none for a session the request
\* came with (rolling is not set, so its cookie is never sent again).
SetCookie(c) ==
  IF ReqSession(c).exists THEN cookie[c]
  ELSE [set |-> TRUE, expires |-> now + MaxAge]

\* A gate that lets every request pass.
GateOpen(c) == TRUE

\* isAuthenticated: req.session && req.session.isAuthenticated
Gate(c) == ReqSession(c).isAuthenticated

\* A server that takes itself to be configured.
UnconfiguredNever == FALSE

\* !APP_PASSWORD
Unconfigured == Falsy(APP_PASSWORD)

\* A comparison that takes every non-empty password.
PasswordMatchesLoose(password) == ~Falsy(password)

\* password && password === APP_PASSWORD
PasswordMatches(password) == ~Falsy(password) /\ password = APP_PASSWORD

\* POST /api/login; saved is whether the session store takes the save.
Login(c, password, saved) ==
  /\ IF Unconfigured
     THEN /\ resp' = Response("login", c, 0, 500, "Server configuration error.", Undefined, FALSE)
          /\ UNCHANGED <<sessions, cookie>>
     ELSE IF PasswordMatches(password)
     THEN IF saved
          THEN /\ sessions' = [sessions EXCEPT ![c] = [exists |-> TRUE, isAuthenticated |-> TRUE]]
               /\ cookie' = [cookie EXCEPT ![c] = SetCookie(c)]
               /\ resp' = Response("login", c, 0, 200, "Login successful.", Undefined, TRUE)
          ELSE /\ sessions' = [sessions EXCEPT ![c] =
                                 IF ReqSession(c).exists THEN @ ELSE NoSession]
               /\ cookie' = [cookie EXCEPT ![c] = SetCookie(c)]
               /\ resp' = Response("login", c, 0, 500, "Session could not be saved.", Undefined, FALSE)
     ELSE /\ resp' = Response("login", c, 0, 401, "Invalid password.", Undefined, FALSE)
          /\ UNCHANGED <<sessions, cookie>>
  /\ UNCHANGED <<pending, APP_PASSWORD, now, docs, nextId, blobs>>

\* A logout that answers without destroying the session.
LogoutKeeps(c, destroyed) ==
  /\ resp' = Response("logout", c, 0, 200, "Logout successful.", Undefined, TRUE)
  /\ UNCHANGED <<pending, APP_PASSWORD, now, sessions, cookie, docs, nextId, blobs>>

\* POST /api/logout; destroyed is whether the session store takes the destroy.
Logout(c, destroyed) ==
  /\ IF destroyed
     THEN /\ sessions' = [sessions EXCEPT ![c] = NoSession]
          /\ cookie' = [cookie EXCEPT ![c] = NoCookie]
          /\ resp' = Response("logout", c, 0, 200, "Logout successful.", Undefined, TRUE)
     ELSE /\ UNCHANGED <<sessions, cookie>>
          /\ resp' = Response("logout", c, 0, 500, "Logout failed.", Undefined, FALSE)
  /\ UNCHANGED <<pending, APP_PASSWORD, now, docs, nextId, blobs>>

\* GET /api/auth/status; flag is loggedIn.
Status(c) ==
  /\ resp' = Response("status", c, 0, 200, "", Undefined, Gate(c))
  /\ UNCHANGED <<pending, APP_PASSWORD, now, sessions, cookie, docs, nextId, blobs>>

\* POST /api/auth/check of the revisions before the sessions; flag is isValid.
AuthCheck(c, userPassword) ==
  /\ resp' =
       IF Unconfigured
       THEN Response("check", c, 0, 500, "Server configuration error.", Undefined, FALSE)
       ELSE IF userPassword = Undefined
       THEN Response("check", c, 0, 400, "Password missing or invalid format.", Undefined, FALSE)
       ELSE Response("check", c, 0, 200, "", Undefined, userPassword = APP_PASSWORD)
  /\ UNCHANGED <<pending, APP_PASSWORD, now, sessions, cookie, docs, nextId, blobs>>

\* Time passes.
Tick ==
  /\ now < MaxTime
  /\ now' = now + 1
  /\ resp' = NoResp
  /\ UNCHANGED <<pending, APP_PASSWORD, sessions, cookie, docs, nextId, blobs>>

\* ------------------------------------------------------------- blob store

\* originalname.replace(/ /g, '_')
RECURSIVE ReplaceBlanks(_)
ReplaceBlanks(s) ==
  IF s = <<>> THEN <<>>
  ELSE <<IF Head(s) = " " THEN "_" ELSE Head(s)>> \o ReplaceBlanks(Tail(s))

\* `${Date.now()}-${originalname.replace(/ /g, '_')}`
uniqueFilename(t, originalname) ==
  NumText(t) \o <<"-">> \o ReplaceBlanks(originalname)

\* The outcomes of an upload: written and made public; the write stream
\* fails (no object); the object is written and makePublic fails.
UploadOutcomes == {"ok", "error", "finalize"}

\* The bucket after uploadToGcs(file) at time t with outcome up.
uploadToGcs(bs, t, originalname, up) ==
  IF up = "error" THEN bs ELSE bs \cup {uniqueFilename(t, originalname)}

\* if (x.imageUrl): a non-empty URL text.
HasImage(url) == url.kind = "url"

\* A deletion that takes the object name of any URL, whatever its bucket.
deleteFromGcsAnyBucket(bs, fileUrl, deleted) ==
  IF ~HasImage(fileUrl) \/ fileUrl.object = <<>> THEN bs
  ELSE IF deleted THEN bs \ {fileUrl.object}
  ELSE bs

\* A deletion that leaves the bucket as it is.
deleteFromGcsSkipped(bs, fileUrl, deleted) == bs

\* The bucket after deleteFromGcs(fileUrl); deleted is whether the bucket
\* takes the delete (a failure is logged and swallowed).
deleteFromGcs(bs, fileUrl, deleted) ==
  IF ~HasImage(fileUrl) \/ fileUrl.bucket # GCS_BUCKET_NAME THEN bs
  ELSE IF fileUrl.object = <<>> THEN bs
  ELSE IF deleted THEN bs \ {fileUrl.object}
  ELSE bs

\* ------------------------------------------------------------ event API

\* A store whose get finds a document under every id.
DocExistsAlways(doc) == TRUE

\* doc.exists
DocExists(doc) == doc.exists

\* The catch of deleteFromGcs is entered: the bucket was asked to delete the
\* object of fileUrl and rejected it.
DeleteFailed(fileUrl, deleted) ==
  /\ HasImage(fileUrl)
  /\ fileUrl.bucket = GCS_BUCKET_NAME
  /\ fileUrl.object # <<>>
  /\ ~deleted

\* A deleteFromGcs that hands the bucket's rejection on to its caller.
DeleteRethrown(fileUrl, deleted) ==
  /\ HasImage(fileUrl)
  /\ fileUrl.bucket = GCS_BUCKET_NAME
  /\ fileUrl.object # <<>>
  /\ ~deleted

\* await deleteFromGcs(fileUrl) throws into the handler: never, the catch of
\* deleteFromGcs logs the error and returns.
DeleteThrows(fileUrl, deleted) == FALSE

\* The bucket was asked to delete the object of fileUrl and took the delete.
DeleteDone(fileUrl, deleted) ==
  /\ HasImage(fileUrl)
  /\ fileUrl.bucket = GCS_BUCKET_NAME
  /\ fileUrl.object # <<>>
  /\ deleted

\* The answer to a request during which deleteFromGcs(fileUrl) ran: the
\* server log says whether the object was deleted ("Successfully deleted GCS
\* object") or the deletion failed ("Failed to delete GCS object").
Logged(r, fileUrl, deleted) ==
  [r EXCEPT !.warned = DeleteFailed(fileUrl, deleted),
            !.removed = DeleteDone(fileUrl, deleted)]

Unauthorized(op, c, id, date) ==
  Response(op, c, id, 401, "Unauthorized. Please log in first.", date, FALSE)

DefaultEventType == <<"O", "e", "f", "f", "e", "n", "t", "l", "i", "c", "h">>

\* POST /api/events.  up is the outcome of the upload, written whether the
\* store takes the add.  An add is possible while the store has ids left.
Create(c, title, date, startTime, file, up, written) ==
  LET ts       == TimestampFromText(date)
      uploaded == IF file = NoFile THEN blobs ELSE uploadToGcs(blobs, now, file, up)
      imageUrl == IF file = NoFile THEN NullImage
                  ELSE PublicUrl(uniqueFilename(now, file))
      newEvent == [exists |-> TRUE, title |-> OrEmpty(title), eventDate |-> ts,
                   startTime |-> OrEmpty(startTime), eventType |-> DefaultEventType,
                   imageUrl |-> imageUrl, createdAt |-> now]
  IN
  /\ nextId < MaxEvents
       \/ ~Gate(c) \/ Falsy(title) \/ Falsy(date) \/ ts = Throw
       \/ (file # NoFile /\ up # "ok") \/ ~written
  /\ IF ~Gate(c)
     THEN /\ resp' = Titled(Unauthorized("create", c, 0, date), title)
          /\ UNCHANGED <<docs, nextId, blobs>>
     ELSE IF Falsy(title) \/ Falsy(date)
     THEN /\ resp' = Titled(Response("create", c, 0, 400, "Title and Date are required fields.", date, FALSE), title)
          /\ UNCHANGED <<docs, nextId, blobs>>
     ELSE IF file # NoFile /\ up # "ok"
     THEN /\ resp' = Titled(Response("create", c, 0, 500, "Error adding event.", date, FALSE), title)
          /\ blobs' = uploaded
          /\ UNCHANGED <<docs, nextId>>
     ELSE IF ts = Throw
     THEN /\ resp' = Titled(Response("create", c, 0, 400, "Invalid date format. Please use YYYY-MM-DD.", date, FALSE), title)
          /\ blobs' = uploaded
          /\ UNCHANGED <<docs, nextId>>
     ELSE IF ~written
     THEN /\ resp' = Titled(Response("create", c, 0, 500, "Error adding event.", date, FALSE), title)
          /\ blobs' = uploaded
          /\ UNCHANGED <<docs, nextId>>
     ELSE /\ resp' = Titled(Response("create", c, nextId + 1, 201, "Event added successfully.", date, TRUE), title)
          /\ blobs' = uploaded
          /\ docs' = [docs EXCEPT ![nextId + 1] = newEvent]
          /\ nextId' = nextId + 1
  /\ UNCHANGED <<pending, APP_PASSWORD, now, sessions, cookie>>

\* PUT /api/events/:id.  read and written are whether the store takes the get
\* and the update, deleted whether the bucket takes the delete of the old
\* image, up the outcome of the upload.
Update(c, id, title, date, startTime, file, read, deleted, up, written) ==
  LET existingData == docs[id]
      ts        == TimestampFromText(date)
      cleaned   == IF file # NoFile /\ HasImage(existingData.imageUrl)
                   THEN deleteFromGcs(blobs, existingData.imageUrl, deleted)
                   ELSE blobs
      uploaded  == IF file = NoFile THEN blobs ELSE uploadToGcs(cleaned, now, file, up)
      imageUrlToUpdate == IF file = NoFile THEN existingData.imageUrl
                          ELSE PublicUrl(uniqueFilename(now, file))
      \* undefined leaves the payload, null becomes FieldValue.delete()
      payloadImage == IF HasImage(imageUrlToUpdate) THEN imageUrlToUpdate ELSE NoImage
      updated   == [existingData EXCEPT
                      !.title = OrEmpty(title), !.eventDate = ts,
                      !.startTime = OrEmpty(startTime),
                      !.eventType = DefaultEventType,
                      !.imageUrl = payloadImage]
      replaced  == IF file # NoFile THEN existingData.imageUrl ELSE NoImage
  IN
  /\ IF ~Gate(c)
     THEN /\ resp' = Titled(Unauthorized("update", c, id, date), title)
          /\ UNCHANGED <<docs, blobs>>
     ELSE IF Falsy(title) \/ Falsy(date)
     THEN /\ resp' = Titled(Response("update", c, id, 400, "Invalid data or Title/Date missing.", date, FALSE), title)
          /\ UNCHANGED <<docs, blobs>>
     ELSE IF ~read
     THEN /\ resp' = Titled(Response("update", c, id, 500, "Error updating event.", date, FALSE), title)
          /\ UNCHANGED <<docs, blobs>>
     ELSE IF ~DocExists(existingData)
     THEN /\ resp' = Titled(Response("update", c, id, 404, "Event not found.", date, FALSE), title)
          /\ UNCHANGED <<docs, blobs>>
     ELSE IF DeleteThrows(replaced, deleted)
     THEN /\ resp' = Titled(Response("update", c, id, 500, "Error updating event.", date, FALSE), title)
          /\ UNCHANGED <<docs, blobs>>
     ELSE IF file # NoFile /\ up # "ok"
     THEN /\ resp' = Logged(Titled(Response("update", c, id, 500, "Error updating event.", date, FALSE), title), replaced, deleted)
          /\ blobs' = uploaded
          /\ docs' = docs
     ELSE IF ts = Throw
     THEN /\ resp' = Logged(Titled(Response("update", c, id, 400, "Invalid date format. Please use YYYY-MM-DD.", date, FALSE), title), replaced, deleted)
          /\ blobs' = uploaded
          /\ docs' = docs
     ELSE IF ~written
     THEN /\ resp' = Logged(Titled(Response("update", c, id, 500, "Error updating event.", date, FALSE), title), replaced, deleted)
          /\ blobs' = uploaded
          /\ docs' = docs
     ELSE /\ resp' = Logged(Titled(Response("update", c, id, 200, "Event updated successfully.", date, TRUE), title), replaced, deleted)
          /\ blobs' = uploaded
          /\ docs' = [docs EXCEPT ![id] = updated]
  /\ UNCHANGED <<pending, APP_PASSWORD, now, sessions, cookie, nextId>>

\* A delete that does not look the record up before it answers.
DeleteUnchecked(c, id, read, deleted, written) ==
  /\ resp' = IF Gate(c)
             THEN Response("delete", c, id, 200, "Event deleted successfully.", Undefined, TRUE)
             ELSE Unauthorized("delete", c, id, Undefined)
  /\ docs' = IF Gate(c) THEN [docs EXCEPT ![id] = NoDoc] ELSE docs
  /\ UNCHANGED <<pending, APP_PASSWORD, now, sessions, cookie, nextId, blobs>>

\* DELETE /api/events/:id
Delete(c, id, read, deleted, written) ==
  LET eventData == docs[id]
      cleaned   == IF HasImage(eventData.imageUrl)
                   THEN deleteFromGcs(blobs, eventData.imageUrl, deleted)
                   ELSE blobs
  IN
  /\ IF ~Gate(c)
     THEN /\ resp' = Unauthorized("delete", c, id, Undefined)
          /\ UNCHANGED <<docs, blobs>>
     ELSE IF ~read
     THEN /\ resp' = Response("delete", c, id, 500, "Error deleting event.", Undefined, FALSE)
          /\ UNCHANGED <<docs, blobs>>
     ELSE IF ~DocExists(eventData)
     THEN /\ resp' = Response("delete", c, id, 404, "Event not found.", Undefined, FALSE)
          /\ UNCHANGED <<docs, blobs>>
     ELSE IF DeleteThrows(eventData.imageUrl, deleted)
     THEN /\ resp' = Response("delete", c, id, 500, "Error deleting event.", Undefined, FALSE)
          /\ UNCHANGED <<docs, blobs>>
     ELSE IF ~written
     THEN /\ resp' = Logged(Response("delete", c, id, 500, "Error deleting event.", Undefined, FALSE),
                          eventData.imageUrl, deleted)
          /\ blobs' = cleaned
          /\ docs' = docs
     ELSE /\ resp' = Logged(Response("delete", c, id, 200, "Event deleted successfully.", Undefined, TRUE),
                          eventData.imageUrl, deleted)
          /\ blobs' = cleaned
          /\ docs' = [docs EXCEPT ![id] = NoDoc]
  /\ UNCHANGED <<pending, APP_PASSWORD, now, sessions, cookie, nextId>>

\* DELETE /api/events/:id/image
DeleteImage(c, id, read, deleted, written) ==
  LET eventData == docs[id]
  IN
  /\ IF ~Gate(c)
     THEN /\ resp' = Unauthorized("deleteImage", c, id, Undefined)
          /\ UNCHANGED <<docs, blobs>>
     ELSE IF ~read
     THEN /\ resp' = Response("deleteImage", c, id, 500, "Error deleting image.", Undefined, FALSE)
          /\ UNCHANGED <<docs, blobs>>
     ELSE IF ~DocExists(eventData)
     THEN /\ resp' = Response("deleteImage", c, id, 404, "Event not found.", Undefined, FALSE)
          /\ UNCHANGED <<docs, blobs>>
     ELSE IF ~HasImage(eventData.imageUrl)
     THEN /\ resp' = Response("deleteImage", c, id, 200, "No image found for this event.", Undefined, TRUE)
          /\ UNCHANGED <<docs, blobs>>
     ELSE IF DeleteThrows(eventData.imageUrl, deleted)
     THEN /\ resp' = Response("deleteImage", c, id, 500, "Error deleting image.", Undefined, FALSE)
          /\ UNCHANGED <<docs, blobs>>
     ELSE IF ~written
     THEN /\ resp' = Logged(Response("deleteImage", c, id, 500, "Error deleting image.", Undefined, FALSE),
                          eventData.imageUrl, deleted)
          /\ blobs' = deleteFromGcs(blobs, eventData.imageUrl, deleted)
          /\ docs' = docs
     ELSE /\ resp' = Logged(Response("deleteImage", c, id, 200, "Image deleted successfully.", Undefined, TRUE),
                          eventData.imageUrl, deleted)
          /\ blobs' = deleteFromGcs(blobs, eventData.imageUrl, deleted)
          /\ docs' = [docs EXCEPT ![id].imageUrl = NoImage]
  /\ UNCHANGED <<pending, APP_PASSWORD, now, sessions, cookie, nextId>>

\* The order of the characters of a start time: the digits, then ':'.
CharRank(ch) == IF ch \in DigitChars THEN DigitVal(ch) ELSE 10

\* a < b for texts, character by character.
RECURSIVE TextLess(_, _)
TextLess(a, b) ==
  IF b = <<>> THEN FALSE
  ELSE IF a = <<>> THEN TRUE
  ELSE IF Head(a) # Head(b) THEN CharRank(Head(a)) < CharRank(Head(b))
  ELSE TextLess(Tail(a), Tail(b))

\* orderBy('eventDate', 'asc').orderBy('startTime', 'asc'): null sorts before
\* every timestamp.
DocBefore(a, b) ==
  IF a.eventDate # b.eventDate
  THEN a.eventDate = NullTimestamp
         \/ (b.eventDate # NullTimestamp /\ a.eventDate[1] < b.eventDate[1])
  ELSE TextLess(a.startTime, b.startTime)

\* One record of the answer of GET /api/events.
RenderDoc(id, data) ==
  [id |-> id, title |-> data.title,
   eventDate |-> IF data.eventDate = NullTimestamp THEN Null
                 ELSE IsoDateText(data.eventDate[1]),
   startTime |-> data.startTime, eventType |-> data.eventType,
   imageUrl |-> data.imageUrl, createdAt |-> data.createdAt]

\* The ids of the documents in ds, in the order of the query (documents that
\* compare equal are in the order of their ids).
RECURSIVE OrderedIds(_, _)
OrderedIds(d, ids) ==
  IF ids = {} THEN <<>>
  ELSE LET first == CHOOSE i \in ids :
                      \A j \in ids \ {i} :
                        \/ DocBefore(d[i], d[j])
                        \/ (~DocBefore(d[j], d[i]) /\ i < j)
       IN <<first>> \o OrderedIds(d, ids \ {first})

\* The answer of a successful GET /api/events.
\* A query ordered by eventDate and startTime returns only the documents
\* that have both fields; every stored document has an eventDate (a timestamp
\* or null), an imported one may lack the startTime.
InQuery(doc) == doc.exists /\ doc.startTime # Undefined

ListEvents(d) ==
  LET ids == OrderedIds(d, {i \in DOMAIN d : InQuery(d[i])})
  IN [k \in 1..Len(ids) |-> RenderDoc(ids[k], d[ids[k]])]

\* GET /api/events; read is whether the store takes the query.
List(c, read) ==
  /\ resp' = IF read
             THEN Response("list", c, 0, 200, "", Undefined, TRUE)
             ELSE Response("list", c, 0, 500, "Error loading events from database.", Undefined, FALSE)
  /\ UNCHANGED <<pending, APP_PASSWORD, now, sessions, cookie, docs, nextId, blobs>>

\* ------------------------------------------------------------- import

\* A sheet row is the sequence of its cells up to the last one that is not
\* empty; the columns are the event date, the title and the start time.
\* String(row[index] || '').trim()
Cell(row, index) == Trim(row[index])

\* row.every(cell => cell === null || String(cell).trim() === '')
BlankRow(row) == \A index \in DOMAIN row : Cell(row, index) = <<>>

\* hasRequiredData: the date was parsed or the title is not empty.
hasRequiredData(row) ==
  \/ parseSheetDate(Cell(row, 1)) # <<>>
  \/ Len(row) >= 2 /\ Cell(row, 2) # <<>>

\* eventObject: the fields of the columns the row has, and createdAt.
eventObject(row, t) ==
  [exists |-> TRUE,
   title |-> IF Len(row) >= 2 THEN Cell(row, 2) ELSE Undefined,
   eventDate |-> parseSheetDate(Cell(row, 1)),
   startTime |-> IF Len(row) >= 3 THEN Cell(row, 3) ELSE Undefined,
   eventType |-> Undefined, imageUrl |-> NoImage, createdAt |-> t]

\* The rows the import writes, in their order.
RECURSIVE Written(_)
Written(rows) ==
  IF rows = <<>> THEN <<>>
  ELSE IF ~BlankRow(Head(rows)) /\ hasRequiredData(Head(rows))
       THEN <<Head(rows)>> \o Written(Tail(rows))
       ELSE Written(Tail(rows))

\* importData of the import script for the data rows of the sheet; committed
\* is whether the sheet was read and the batch committed (fewer than 400
\* rows make one batch).
importData(rows, committed) ==
  LET kept == Written(rows)
  IN
  /\ nextId + Len(kept) <= MaxEvents
  /\ IF committed
     THEN /\ docs' = [i \in EventIds |->
                       IF i > nextId /\ i <= nextId + Len(kept)
                       THEN eventObject(kept[i - nextId], now)
                       ELSE docs[i]]
          /\ nextId' = nextId + Len(kept)
          /\ resp' = Response("import", "", Len(kept), 0, "", Undefined, TRUE)
     ELSE /\ UNCHANGED <<docs, nextId>>
          /\ resp' = Response("import", "", 0, 0, "", Undefined, FALSE)
  /\ UNCHANGED <<pending, APP_PASSWORD, now, sessions, cookie, blobs>>

\* ------------------------------------------- requests that interleave
\* PUT and DELETE /api/events/:id as the steps between their awaits; another
\* request may run between two steps of one.

\* An update that writes the document whether the store has it or not.
NotFoundNever(doc) == FALSE

\* eventRef.update(payload) is rejected (NOT_FOUND) when the document does not
\* exist; update never creates a document.
NotFound(doc) == ~doc.exists

\* PUT: the gate, the validation and `await eventRef.get()`.
PutGet(c, id, title, date, startTime, file, read) ==
  /\ pending.put.pc = "idle"
  /\ IF ~Gate(c)
     THEN /\ resp' = Titled(Unauthorized("update", c, id, date), title)
          /\ pending' = [pending EXCEPT !.put = NoPut]
     ELSE IF Falsy(title) \/ Falsy(date)
     THEN /\ resp' = Titled(Response("update", c, id, 400, "Invalid data or Title/Date missing.", date, FALSE), title)
          /\ pending' = [pending EXCEPT !.put = NoPut]
     ELSE IF ~read
     THEN /\ resp' = Titled(Response("update", c, id, 500, "Error updating event.", date, FALSE), title)
          /\ pending' = [pending EXCEPT !.put = NoPut]
     ELSE IF ~DocExists(docs[id])
     THEN /\ resp' = Titled(Response("update", c, id, 404, "Event not found.", date, FALSE), title)
          /\ pending' = [pending EXCEPT !.put = NoPut]
     ELSE /\ resp' = NoResp
          /\ pending' = [pending EXCEPT !.put =
                           [pc |-> IF file # NoFile THEN "deleteOld" ELSE "update",
                            client |-> c, id |-> id, title |-> title, date |-> date,
                            startTime |-> startTime, file |-> file, found |-> TRUE,
                            imageUrl |-> docs[id].imageUrl,
                            imageUrlToUpdate |-> docs[id].imageUrl]]
  /\ UNCHANGED <<APP_PASSWORD, now, sessions, cookie, docs, nextId, blobs>>

\* PUT with a file: `await deleteFromGcs(existingData.imageUrl)`.
PutDeleteOld(deleted) ==
  LET put == pending.put
  IN
  /\ put.pc = "deleteOld"
  /\ blobs' = IF HasImage(put.imageUrl)
              THEN deleteFromGcs(blobs, put.imageUrl, deleted)
              ELSE blobs
  /\ pending' = [pending EXCEPT !.put.pc = "upload"]
  /\ resp' = NoResp
  /\ UNCHANGED <<APP_PASSWORD, now, sessions, cookie, docs, nextId>>

\* PUT with a file: `imageUrlToUpdate = await uploadToGcs(...)`.
PutUpload(up) ==
  LET put == pending.put
  IN
  /\ put.pc = "upload"
  /\ blobs' = uploadToGcs(blobs, now, put.file, up)
  /\ IF up # "ok"
     THEN /\ resp' = Titled(Response("update", put.client, put.id, 500, "Error updating event.", put.date, FALSE), put.title)
          /\ pending' = [pending EXCEPT !.put.pc = "idle"]
     ELSE /\ resp' = NoResp
          /\ pending' = [pending EXCEPT
                           !.put.pc = "update",
                           !.put.imageUrlToUpdate = PublicUrl(uniqueFilename(now, put.file))]
  /\ UNCHANGED <<APP_PASSWORD, now, sessions, cookie, docs, nextId>>

\* PUT: the date conversion, the payload and `await eventRef.update(payload)`,
\* which merges the payload into the document the store has now.
PutUpdate(written) ==
  LET put == pending.put
      ts  == TimestampFromText(put.date)
      payloadImage == IF HasImage(put.imageUrlToUpdate)
                      THEN put.imageUrlToUpdate ELSE NoImage
      updated == [docs[put.id] EXCEPT
                    !.exists = TRUE,
                    !.title = OrEmpty(put.title), !.eventDate = ts,
                    !.startTime = OrEmpty(put.startTime),
                    !.eventType = DefaultEventType,
                    !.imageUrl = payloadImage]
  IN
  /\ put.pc = "update"
  /\ pending' = [pending EXCEPT !.put.pc = "idle"]
  /\ IF ts = Throw
     THEN /\ resp' = Titled(Response("update", put.client, put.id, 400, "Invalid date format. Please use YYYY-MM-DD.", put.date, FALSE), put.title)
          /\ docs' = docs
     ELSE IF NotFound(docs[put.id]) \/ ~written
     THEN /\ resp' = Titled(Response("update", put.client, put.id, 500, "Error updating event.", put.date, FALSE), put.title)
          /\ docs' = docs
     ELSE /\ resp' = Titled(Response("update", put.client, put.id, 200, "Event updated successfully.", put.date, TRUE), put.title)
          /\ docs' = [docs EXCEPT ![put.id] = updated]
  /\ UNCHANGED <<APP_PASSWORD, now, sessions, cookie, nextId, blobs>>

\* DELETE: the gate and `await eventRef.get()`.
DeleteGet(c, id, read) ==
  /\ pending.del.pc = "idle"
  /\ IF ~Gate(c)
     THEN /\ resp' = Unauthorized("delete", c, id, Undefined)
          /\ pending' = [pending EXCEPT !.del = NoDelete]
     ELSE IF ~read
     THEN /\ resp' = Response("delete", c, id, 500, "Error deleting event.", Undefined, FALSE)
          /\ pending' = [pending EXCEPT !.del = NoDelete]
     ELSE IF ~DocExists(docs[id])
     THEN /\ resp' = Response("delete", c, id, 404, "Event not found.", Undefined, FALSE)
          /\ pending' = [pending EXCEPT !.del = NoDelete]
     ELSE /\ resp' = NoResp
          /\ pending' = [pending EXCEPT !.del =
                           [pc |-> IF HasImage(docs[id].imageUrl)
                                   THEN "deleteImage" ELSE "delete",
                            client |-> c, id |-> id, found |-> TRUE,
                            imageUrl |-> docs[id].imageUrl]]
  /\ UNCHANGED <<APP_PASSWORD, now, sessions, cookie, docs, nextId, blobs>>

\* DELETE of a record with an image: `await deleteFromGcs(eventData.imageUrl)`.
DeleteBlob(deleted) ==
  /\ pending.del.pc = "deleteImage"
  /\ blobs' = deleteFromGcs(blobs, pending.del.imageUrl, deleted)
  /\ pending' = [pending EXCEPT !.del.pc = "delete"]
  /\ resp' = NoResp
  /\ UNCHANGED <<APP_PASSWORD, now, sessions, cookie, docs, nextId>>

\* DELETE: `await eventRef.delete()`, which succeeds also for a document that
\* is no longer there.
DeleteDoc(written) ==
  /\ pending.del.pc = "delete"
  /\ pending' = [pending EXCEPT !.del.pc = "idle"]
  /\ IF ~written
     THEN /\ resp' = Response("delete", pending.del.client, pending.del.id, 500, "Error deleting event.", Undefined, FALSE)
          /\ docs' = docs
     ELSE /\ resp' = Response("delete", pending.del.client, pending.del.id, 200, "Event deleted successfully.", Undefined, TRUE)
          /\ docs' = [docs EXCEPT ![pending.del.id] = NoDoc]
  /\ UNCHANGED <<APP_PASSWORD, now, sessions, cookie, nextId, blobs>>

\* One call deleteFromGcs(fileUrl) for a reference of any kind; the answer
\* holds the reference and what the server logged about the bucket call.
DeleteFromGcs(fileUrl, deleted) ==
  /\ blobs' = deleteFromGcs(blobs, fileUrl, deleted)
  /\ resp' = Logged([Response("deleteFromGcs", "", 0, 0, "", Undefined, FALSE)
                       EXCEPT !.fileUrl = fileUrl],
                    fileUrl, deleted)
  /\ UNCHANGED <<pending, APP_PASSWORD, now, sessions, cookie, docs, nextId>>

\* ------------------------------------------------------- date parsers

\* event.sortableDate = parseAndFormatDate(dateValue) of the spreadsheet
\* server, for the date cell of one sheet row; the answer holds the cell and
\* the sortable date.
SortableDate(dateValue) ==
  /\ resp' = [Response("sortableDate", "", 0, 0, "", dateValue, FALSE)
                EXCEPT !.result = parseAndFormatDate(dateValue)]
  /\ UNCHANGED <<pending, APP_PASSWORD, now, sessions, cookie, docs, nextId, blobs>>

\* const parsedDate = parseSheetDate(sheetValue) of the import script, for
\* the date cell of one sheet row.
ParsedDate(sheetValue) ==
  /\ resp' = [Response("parsedDate", "", 0, 0, "", sheetValue, FALSE)
                EXCEPT !.result = parseSheetDate(sheetValue)]
  /\ UNCHANGED <<pending, APP_PASSWORD, now, sessions, cookie, docs, nextId, blobs>>

\* ----------------------------------------------------------- specification

\* The outcomes of the store and bucket calls of a request: a call that the
\* request does not reach has no outcome to choose.
Reaches(c, title, date) == Gate(c) /\ ~Falsy(title) /\ ~Falsy(date)

StoreOutcomes(reached) == IF reached THEN BOOLEAN ELSE {TRUE}

UploadsOf(reached, file) ==
  IF reached /\ file # NoFile THEN UploadOutcomes ELSE {"ok"}

DeletesOf(reached, id) ==
  IF reached /\ HasImage(docs[id].imageUrl) THEN BOOLEAN ELSE {TRUE}

LoginReq(cs) ==
  \E c \in cs, password \in Passwords, saved \in BOOLEAN : Login(c, password, saved)

LogoutReq(cs) == \E c \in cs, destroyed \in BOOLEAN : Logout(c, destroyed)

StatusReq(cs) == \E c \in cs : Status(c)

AuthCheckReq(cs) == \E c \in cs, password \in Passwords : AuthCheck(c, password)

ListReq(cs) == \E c \in cs, read \in BOOLEAN : List(c, read)

CreateReq(cs, titles, dates, files) ==
  \E c \in cs, title \in titles, date \in dates, startTime \in StartTimes,
     file \in files :
    \E up \in UploadsOf(Reaches(c, title, date), file),
       written \in StoreOutcomes(Reaches(c, title, date)) :
      Create(c, title, date, startTime, file, up, written)

UpdateReq(cs, titles, dates, files) ==
  \E c \in cs, id \in EventIds, title \in titles, date \in dates,
     startTime \in StartTimes, file \in files :
    \E read \in StoreOutcomes(Reaches(c, title, date)),
       deleted \in DeletesOf(Reaches(c, title, date) /\ file # NoFile, id),
       up \in UploadsOf(Reaches(c, title, date), file),
       written \in StoreOutcomes(Reaches(c, title, date)) :
      Update(c, id, title, date, startTime, file, read, deleted, up, written)

DeleteReq(cs) ==
  \E c \in cs, id \in EventIds :
    \E read \in StoreOutcomes(Gate(c)), deleted \in DeletesOf(Gate(c), id),
       written \in StoreOutcomes(Gate(c)) :
      Delete(c, id, read, deleted, written)

DeleteImageReq(cs) ==
  \E c \in cs, id \in EventIds :
    \E read \in StoreOutcomes(Gate(c)), deleted \in DeletesOf(Gate(c), id),
       written \in StoreOutcomes(Gate(c)) :
      DeleteImage(c, id, read, deleted, written)

\* A request body with the fields a client may send; the id and the createdAt
\* are 0 when the body has none.
Bodies(titles, dates, startTimes, ids, stamps) ==
  [title : titles, eventDate : dates, startTime : startTimes,
   id : ids, createdAt : stamps]

\* An update that takes the document id from the body when the body has one.
UpdateBodyById(c, id, body, file, read, deleted, up, written) ==
  Update(c, IF body.id \in EventIds THEN body.id ELSE id,
         body.title, body.eventDate, body.startTime,
         file, read, deleted, up, written)

\* const eventData = req.body: the handlers read the title, the eventDate and
\* the startTime of the body and no other field of it.
CreateBody(c, body, file, up, written) ==
  Create(c, body.title, body.eventDate, body.startTime, file, up, written)

UpdateBody(c, id, body, file, read, deleted, up, written) ==
  Update(c, id, body.title, body.eventDate, body.startTime,
         file, read, deleted, up, written)

CreateBodyReq(cs, bodies, files) ==
  \E c \in cs, body \in bodies, file \in files :
    \E up \in UploadsOf(Reaches(c, body.title, body.eventDate), file),
       written \in StoreOutcomes(Reaches(c, body.title, body.eventDate)) :
      CreateBody(c, body, file, up, written)

UpdateBodyReq(cs, bodies, files) ==
  \E c \in cs, id \in EventIds, body \in bodies, file \in files :
    \E read \in StoreOutcomes(Reaches(c, body.title, body.eventDate)),
       deleted \in DeletesOf(Reaches(c, body.title, body.eventDate)
                               /\ file # NoFile, id),
       up \in UploadsOf(Reaches(c, body.title, body.eventDate), file),
       written \in StoreOutcomes(Reaches(c, body.title, body.eventDate)) :
      UpdateBody(c, id, body, file, read, deleted, up, written)

ImportReq(sheets) ==
  \E rows \in sheets, committed \in BOOLEAN : importData(rows, committed)

\* The event API behind the gate, used by one client whose bodies have a
\* title and a date text, with every outcome of the store and bucket calls.
Editors == {"c1"}
EditorTitles == {<<"F">>}
EditorDates == {IsoDate, NotADate}

Next ==
  \/ LoginReq(Editors)
  \/ LogoutReq(Editors)
  \/ ListReq(Editors)
  \/ CreateReq(Editors, EditorTitles, EditorDates, Files) /\ nextId' <= MaxEdited
  \/ UpdateReq(Editors, EditorTitles, EditorDates, Files)
  \/ DeleteReq(Editors)
  \/ DeleteImageReq(Editors)
  \/ Tick

Spec == Init /\ [][Next]_vars

\* The session gate with two clients: the session endpoints, the password
\* check, and the mutating requests with a body that has no title.
NextSessions ==
  \/ LoginReq(Clients)
  \/ LogoutReq(Clients)
  \/ StatusReq(Clients)
  \/ AuthCheckReq(Clients)
  \/ CreateReq(Clients, {Undefined}, {IsoDate}, {NoFile})
  \/ UpdateReq(Clients, {Undefined}, {IsoDate}, {NoFile})
  \/ DeleteReq(Clients)
  \/ DeleteImageReq(Clients)
  \/ Tick

SpecSessions == Init /\ [][NextSessions]_vars

\* The request bodies of create and update: one client, every title, every
\* date text, with and without a file, and no clock tick.
NextBodies ==
  \/ LoginReq(Editors)
  \/ ListReq(Editors)
  \/ CreateReq(Editors, Titles, DateTexts, Files) /\ nextId' <= MaxEdited
  \/ UpdateReq(Editors, Titles, DateTexts, Files)
  \/ DeleteReq(Editors)

SpecBodies == Init /\ [][NextBodies]_vars

\* The list: one client, two titles, two dates and two start times, no file,
\* and sheets of one row for the import: a row whose date is no date, a row
\* that ends with its title, and a full row.
ListTitles == {<<"F">>, <<"G">>}
NextDay == <<"2", "0", "2", "5", "-", "0", "6", "-", "0", "2">>
ListDates == {IsoDate, NextDay}
Nine == <<"0", "9", ":", "0", "0">>
Ten == <<"1", "0", ":", "0", "0">>
ListStarts == {Nine, Ten}
ListBodies == Bodies(ListTitles, ListDates, ListStarts, {0}, {0})
ListSheets ==
  { <<row>> : row \in {<<NotADate, <<"F">>, Ten>>,
                       <<IsoDate, <<"F">>>>,
                       <<IsoDate, <<"G">>, Nine>>} }

NextList ==
  \/ LoginReq(Editors)
  \/ ListReq(Editors)
  \/ CreateBodyReq(Editors, ListBodies, {NoFile})
  \/ UpdateBodyReq(Editors, ListBodies, {NoFile})
  \/ DeleteReq(Editors)
  \/ ImportReq(ListSheets)

SpecList == Init /\ [][NextList]_vars

\* The identity of the records: one client whose bodies carry an id (none, or
\* the id of a record) and a createdAt of their own, two records without
\* images, and the clock.
FrameStamps == {MaxTime + 1}
FrameBodies == Bodies(ListTitles, {IsoDate}, StartTimes, {0} \cup EventIds, FrameStamps)

NextFrame ==
  \/ LoginReq(Editors)
  \/ CreateBodyReq(Editors, FrameBodies, {NoFile})
  \/ UpdateBodyReq(Editors, FrameBodies, {NoFile})
  \/ DeleteReq(Editors)
  \/ Tick

SpecFrame == Init /\ [][NextFrame]_vars

\* The uploads: one client that creates records with and without a file and
\* deletes them, and the clock; requests between two ticks read the same
\* Date.now().
NextUploads ==
  \/ LoginReq(Editors)
  \/ CreateReq(Editors, EditorTitles, {IsoDate}, Files)
  \/ DeleteReq(Editors)
  \/ Tick

SpecUploads == Init /\ [][NextUploads]_vars

\* The references deleteFromGcs may be called with: no value, null, the empty
\* text, a URL without the bucket prefix, a URL of another bucket that names
\* an object this bucket has, the bare prefix, and the URLs of the uploads.
EmptyImage == [kind |-> "empty", bucket |-> "", object |-> <<>>]
OtherBucket == "other_bucket"
FileUrls ==
  {NoImage, NullImage, EmptyImage, PublicUrl(<<>>)}
    \cup { [kind |-> "url", bucket |-> b, object |-> uniqueFilename(t, file)] :
             b \in {"", OtherBucket, GCS_BUCKET_NAME}, t \in 0..MaxTime,
             file \in Files \ {NoFile} }

NextBlobs ==
  \/ LoginReq(Editors)
  \/ CreateReq(Editors, EditorTitles, {IsoDate}, Files) /\ nextId' <= MaxEdited
  \/ \E fileUrl \in FileUrls, deleted \in BOOLEAN : DeleteFromGcs(fileUrl, deleted)
  \/ Tick

SpecBlobs == Init /\ [][NextBlobs]_vars

\* An update and a delete of one client that run at the same time, each as
\* the steps between its awaits, on records created with and without a file.
NextRace ==
  \/ LoginReq(Editors)
  \/ CreateReq(Editors, EditorTitles, {IsoDate}, Files) /\ nextId' <= MaxEdited
  \/ \E c \in Editors, id \in EventIds, title \in EditorTitles,
        startTime \in StartTimes, file \in Files, read \in BOOLEAN :
       PutGet(c, id, title, IsoDate, startTime, file, read)
  \/ \E deleted \in BOOLEAN : PutDeleteOld(deleted)
  \/ \E up \in UploadOutcomes : PutUpload(up)
  \/ \E written \in BOOLEAN : PutUpdate(written)
  \/ \E c \in Editors, id \in EventIds, read \in BOOLEAN : DeleteGet(c, id, read)
  \/ \E deleted \in BOOLEAN : DeleteBlob(deleted)
  \/ \E written \in BOOLEAN : DeleteDoc(written)
  \/ ListReq(Editors)

SpecRace == Init /\ [][NextRace]_vars

\* The date cells of the sheet: a day written day.month.year, year-month-day
\* or month/day/year, with or without leading zeros, with components in and
\* out of the ranges of the Date Normalizer, and texts that are no such
\* pattern.
CellYears == {1900, 2025}
CellMonths == {0, 2, 12, 13}
CellDays == {0, 1, 31, 32}
CellForms == {"dmy", "ymd", "mdy"}

CellNumber(n, padded) == IF padded THEN PadStart(NumText(n), 2) ELSE NumText(n)

CellText(form, y, m, d, padded) ==
  CASE form = "dmy" -> CellNumber(d, padded) \o <<".">> \o CellNumber(m, padded)
                         \o <<".">> \o NumText(y)
    [] form = "ymd" -> NumText(y) \o <<"-">> \o CellNumber(m, padded)
                         \o <<"-">> \o CellNumber(d, padded)
    [] form = "mdy" -> CellNumber(m, padded) \o <<"/">> \o CellNumber(d, padded)
                         \o <<"/">> \o NumText(y)

DateCells ==
  { CellText(form, y, m, d, padded) :
      form \in CellForms, y \in CellYears, m \in CellMonths, d \in CellDays,
      padded \in BOOLEAN }
    \cup DateTexts

NextDates ==
  \/ \E dateValue \in DateCells : SortableDate(dateValue)
  \/ \E sheetValue \in DateCells : ParsedDate(sheetValue)

SpecDates == Init /\ [][NextDates]_vars

\* ------------------------------------------------------------- properties
\* What the session state says about client c, read from the cookie jar and
\* the session store themselves: c holds a cookie that has not expired, and
\* the session it names is stored and marked authenticated.
Authenticated(c) ==
  /\ cookie[c].set
  /\ now < cookie[c].expires
  /\ sessions[c].exists
  /\ sessions[c].isAuthenticated

MutatingOps == {"create", "update", "delete", "deleteImage"}

StoredImage(id) == docs[id].exists /\ HasImage(docs[id].imageUrl)

\* C1: a create, update, delete or delete-image request of a client without an
\* authenticated session is answered 401, whatever its body and file are, and
\* leaves the event store and the blob store as they were.
C1_GateBlocksMutations ==
  [][\A c \in Clients :
       (resp'.op \in MutatingOps /\ resp'.client = c /\ ~Authenticated(c))
         => /\ resp'.status = 401
            /\ docs' = docs
            /\ nextId' = nextId
            /\ blobs' = blobs]_vars

\* A delete of a stored record with an image in the bucket was refused with 401.
C1_Witness ==
  /\ resp.op = "delete"
  /\ resp.status = 401
  /\ StoredImage(resp.id)
  /\ docs[resp.id].imageUrl.object \in blobs

\* C2: from a successful login on, and until the client logs out or the
\* session expires, the session is authenticated and no create, update,
\* delete or delete-image request of the client is answered 401; a create
\* with a title and a valid date, whose upload and store write succeed, is
\* answered 401 without the session and 201 with it.
C2_LoginOpensGate ==
  [][\A c \in Clients :
       /\ (resp'.op = "login" /\ resp'.client = c /\ resp'.status = 200)
            => Authenticated(c)'
       /\ (Authenticated(c) /\ ~Authenticated(c)')
            => \/ resp'.op = "logout" /\ resp'.client = c
               \/ now' >= cookie[c].expires
       /\ (Authenticated(c) /\ resp'.op \in MutatingOps /\ resp'.client = c)
            => resp'.status # 401
       /\ \A startTime \in StartTimes, file \in Files :
            Create(c, <<"F">>, IsoDate, startTime, file, "ok", TRUE)
              => resp'.status = IF Authenticated(c) THEN 201 ELSE 401]_vars

\* A create was answered 201 to a client with an authenticated session.
C2_Witness ==
  /\ resp.op = "create"
  /\ resp.status = 201
  /\ Authenticated(resp.client)

\* C3: with a password configured, a login whose password differs from it,
\* or is absent or empty, is answered 401 and leaves the session store and
\* the client's cookie as they were: an authenticated session stays
\* authenticated, an unauthenticated one unauthenticated.
C3_WrongPasswordRejected ==
  [][\A c \in Clients, password \in Passwords, saved \in BOOLEAN :
       (~Falsy(APP_PASSWORD) /\ password # APP_PASSWORD /\ Login(c, password, saved))
         => /\ resp'.status = 401
            /\ sessions' = sessions
            /\ cookie' = cookie
            /\ Authenticated(c)' <=> Authenticated(c)]_vars

\* A login was answered 401 to a client whose session is authenticated.
C3_Witness ==
  /\ resp.op = "login"
  /\ resp.status = 401
  /\ Authenticated(resp.client)

\* C4: without a configured password every login is answered 500 and no
\* session is ever authenticated, and every password check is answered 500
\* and never reports a valid password.
C4_UnconfiguredNeverAuthenticates ==
  APP_PASSWORD = Undefined =>
    /\ resp.op = "login" => resp.status = 500 /\ ~resp.flag
    /\ resp.op = "check" => resp.status = 500 /\ ~resp.flag
    /\ \A c \in Clients : ~sessions[c].isAuthenticated /\ ~Authenticated(c)

\* A login was answered 500 by a server without a configured password.
C4_Witness ==
  /\ APP_PASSWORD = Undefined
  /\ resp.op = "login"
  /\ resp.status = 500

\* C5: a logout whose session the store destroys is answered 200, with a
\* session or without one, and in every state (so also right after a logout);
\* after it the client is not authenticated, and stays so until a login
\* succeeds: the status reports loggedIn false and mutating requests get 401.
C5_LogoutIdempotent ==
  [][\A c \in Clients :
       /\ Logout(c, TRUE) => resp'.status = 200 /\ ~Authenticated(c)'
       /\ (~Authenticated(c) /\ Authenticated(c)')
            => resp'.op = "login" /\ resp'.client = c /\ resp'.status = 200
       /\ (~Authenticated(c) /\ resp'.client = c)
            => /\ resp'.op = "status" => ~resp'.flag
               /\ resp'.op \in MutatingOps => resp'.status = 401]_vars

\* A logout was answered 200 and the client has neither session nor cookie.
C5_Witness ==
  /\ resp.op = "logout"
  /\ resp.status = 200
  /\ ~sessions[resp.client].exists
  /\ ~cookie[resp.client].set

\* C6: the status request is answered 200 in every state, reports loggedIn
\* true exactly when the client's session is authenticated at that time, and
\* changes nothing.
C6_StatusReportsSession ==
  [][resp'.op = "status"
       => /\ resp'.status = 200
          /\ resp'.flag <=> Authenticated(resp'.client)
          /\ UNCHANGED <<pending, APP_PASSWORD, now, sessions, cookie, docs, nextId, blobs>>]_vars

\* The status reported loggedIn true to a client with an authenticated session.
C6_Witness ==
  /\ resp.op = "status"
  /\ resp.status = 200
  /\ resp.flag
  /\ Authenticated(resp.client)

Missing(v) == v = Undefined \/ v = <<>>

BodyOps == {"create", "update"}

MissingFieldMsgs ==
  {"Title and Date are required fields.", "Invalid data or Title/Date missing."}

InvalidDateMsg == "Invalid date format. Please use YYYY-MM-DD."

\* C8: a create or update request that passed the gate and whose title or
\* eventDate is absent or empty is answered 400 with the missing-field
\* message, and nothing is written to the event store or the bucket.
C8_MissingFieldsRejected ==
  [][(/\ resp'.op \in BodyOps
      /\ Authenticated(resp'.client)
      /\ Missing(resp'.title) \/ Missing(resp'.date))
       => /\ resp'.status = 400
          /\ resp'.msg \in MissingFieldMsgs
          /\ docs' = docs
          /\ nextId' = nextId
          /\ blobs' = blobs]_vars

\* An update of a stored record was answered 400 for an empty title given
\* with a date.
C8_Witness ==
  /\ resp.op = "update"
  /\ resp.status = 400
  /\ resp.title = <<>>
  /\ ~Missing(resp.date)
  /\ docs[resp.id].exists

\* The texts neither the date normalizer nor the conversion of the handlers
\* reads as a date.
Unparseable(date) ==
  parseAndFormatDate(date) = Null /\ TimestampFromText(date) = Throw

\* C9: a create or update request that passed the gate, with a title and a
\* non-empty eventDate that cannot be read as a date, is answered 400 with the
\* invalid-date message (unless a store or bucket call fails), and the event
\* store is left as it was.
C9_InvalidDateRejected ==
  [][(/\ resp'.op \in BodyOps
      /\ Authenticated(resp'.client)
      /\ ~Missing(resp'.title)
      /\ ~Missing(resp'.date)
      /\ Unparseable(resp'.date)
      /\ resp'.status # 500)
       => /\ resp'.status = 400
          /\ resp'.msg = InvalidDateMsg
          /\ resp'.msg \notin MissingFieldMsgs
          /\ docs' = docs]_vars

Digits(s, from, to) == \A i \in from..to : s[i] \in DigitChars

\* YYYY, YYYY-MM or YYYY-MM-DD with every field at its full width, a year
\* from 0001, a month of 01..12 and a day of 01..31.
PaddedShape(s) ==
  /\ Len(s) \in {4, 7, 10}
  /\ Digits(s, 1, 4)
  /\ ParseInt(SubSeq(s, 1, 4)) >= 1
  /\ Len(s) >= 7 =>
       s[5] = "-" /\ Digits(s, 6, 7) /\ ParseInt(SubSeq(s, 6, 7)) \in 1..12
  /\ Len(s) = 10 =>
       s[8] = "-" /\ Digits(s, 9, 10) /\ ParseInt(SubSeq(s, 9, 10)) \in 1..31

DaysInMonth(y, m) ==
  IF m = 2
  THEN IF (y % 4 = 0 /\ y % 100 # 0) \/ y % 400 = 0 THEN 29 ELSE 28
  ELSE IF m \in {4, 6, 9, 11} THEN 30 ELSE 31

\* A full YYYY-MM-DD text whose day is a day of its month.
CalendarDay(s) ==
  /\ PaddedShape(s)
  /\ Len(s) = 10
  /\ ParseInt(SubSeq(s, 9, 10))
       <= DaysInMonth(ParseInt(SubSeq(s, 1, 4)), ParseInt(SubSeq(s, 6, 7)))

\* The eventDate the list shows for the record id.
ListedDate(d, id) ==
  LET l == ListEvents(d)
  IN IF \E k \in DOMAIN l : l[k].id = id
     THEN (CHOOSE r \in {l[k] : k \in DOMAIN l} : r.id = id).eventDate
     ELSE Undefined

Feb31 == <<"2", "0", "2", "5", "-", "0", "2", "-", "3", "1">>
Mar03 == <<"2", "0", "2", "5", "-", "0", "3", "-", "0", "3">>

\* The requests the date decides: they passed the gate, have a title and a
\* non-empty date text, found their record and met no store or bucket failure.
DateDecides(r) ==
  /\ r.op \in BodyOps
  /\ Authenticated(r.client)
  /\ ~Missing(r.title)
  /\ ~Missing(r.date)
  /\ r.status \notin {404, 500}

C12_NoImageNoField ==
  \A id \in EventIds :
    (docs[id].exists /\ ~HasImage(docs[id].imageUrl))
      => docs[id].imageUrl = NoImage


\* C13: the answer of GET /api/events holds every stored record, the dated
\* records by ascending eventDate and, within one date, by ascending
\* startTime, and the records without a date after all dated ones.
C13_ListOrdered ==
  LET events == ListEvents(docs)
      stored(k) == docs[events[k].id]
  IN
  /\ {events[k].id : k \in DOMAIN events} = {id \in EventIds : docs[id].exists}
  /\ \A k, l \in DOMAIN events :
       k < l =>
         /\ stored(k).eventDate = NullTimestamp => stored(l).eventDate = NullTimestamp
         /\ (stored(k).eventDate # NullTimestamp /\ stored(l).eventDate # NullTimestamp)
              => stored(k).eventDate[1] <= stored(l).eventDate[1]
         /\ stored(k).eventDate = stored(l).eventDate
              => ~TextLess(stored(l).startTime, stored(k).startTime)


\* C14: from an empty store, a successful create with title T, a calendar
\* date D written YYYY-MM-DD and start time S, followed by a list, gives
\* exactly one record, with title T, eventDate D, startTime S and the id the
\* create returned.
C14_RoundTrip ==
  [][\A c \in Editors, body \in ListBodies :
       ( /\ \A id \in EventIds : ~docs[id].exists
         /\ CalendarDay(body.eventDate)
         /\ CreateBody(c, body, NoFile, "ok", TRUE)
         /\ resp'.status = 201 )
       => LET events == ListEvents(docs')
          IN /\ Len(events) = 1
             /\ events[1].title = body.title
             /\ events[1].eventDate = body.eventDate
             /\ events[1].startTime = body.startTime
             /\ events[1].id = resp'.id]_vars

\* A second record created into a store that a delete had emptied.
C14_Witness ==
  /\ resp.op = "create"
  /\ resp.status = 201
  /\ resp.id = 2
  /\ ~docs[1].exists
  /\ Len(ListEvents(docs)) = 1
  /\ ListEvents(docs)[1].startTime = Nine
  /\ ListEvents(docs)[1].eventDate = NextDay

\* C15: an update by an authenticated client, with a title and a date that
\* converts, for an id that has no record, whose store lookup is answered, is
\* answered 404 and changes nothing: no record is created or modified and no
\* blob is uploaded or deleted, with or without a file.
C15_UnknownUpdate ==
  [][( /\ resp'.op = "update"
       /\ ~docs[resp'.id].exists
       /\ Authenticated(resp'.client)
       /\ ~Falsy(resp'.title)
       /\ ~Falsy(resp'.date)
       /\ TimestampFromText(resp'.date) # Throw
       /\ \E startTime \in StartTimes, file \in Files, deleted \in BOOLEAN,
             up \in UploadOutcomes, written \in BOOLEAN :
            Update(resp'.client, resp'.id, resp'.title, resp'.date, startTime,
                   file, TRUE, deleted, up, written) )
     => /\ resp'.status = 404
        /\ docs' = docs
        /\ nextId' = nextId
        /\ blobs' = blobs]_vars

\* An update of an id without a record was answered 404 while another record
\* and its image are stored.
C15_Witness ==
  /\ resp.op = "update"
  /\ resp.status = 404
  /\ resp.date = IsoDate
  /\ ~docs[resp.id].exists
  /\ \E id \in EventIds : StoredImage(id) /\ docs[id].imageUrl.object \in blobs

C17_UnknownDelete ==
  [][/\ ( /\ resp'.op = "delete"
          /\ Authenticated(resp'.client)
          /\ \E deleted \in BOOLEAN, written \in BOOLEAN :
               Delete(resp'.client, resp'.id, TRUE, deleted, written) )
        => IF docs[resp'.id].exists
           THEN resp'.status = 200 => ~docs'[resp'.id].exists
           ELSE /\ resp'.status = 404
                /\ docs' = docs
                /\ nextId' = nextId
                /\ blobs' = blobs
     /\ \A id \in EventIds :
          (id <= nextId /\ ~docs[id].exists) => ~docs'[id].exists]_vars

\* A delete of the id of a record that was deleted before was answered 404.
C17_Witness ==
  /\ resp.op = "delete"
  /\ resp.status = 404
  /\ resp.id <= nextId
  /\ ~docs[resp.id].exists

\* C18: a delete answered 200 removes the record; when the record has an
\* imageUrl and the bucket takes the deletion, the blob of that URL is removed
\* as well and no other blob is touched; when the record has no imageUrl, the
\* bucket is left as it was.
C18_DeleteRemovesBlob ==
  [][(resp'.op = "delete" /\ resp'.status = 200 /\ ~resp'.warned)
       => /\ ~docs'[resp'.id].exists
          /\ \A other \in EventIds \ {resp'.id} : docs'[other] = docs[other]
          /\ IF HasImage(docs[resp'.id].imageUrl)
             THEN /\ docs[resp'.id].imageUrl.object \notin blobs'
                  /\ blobs' = blobs \ {docs[resp'.id].imageUrl.object}
             ELSE /\ blobs' = blobs
                  /\ ~resp'.removed]_vars

\* A record with an image was deleted, and its blob with it.
C18_Witness ==
  /\ resp.op = "delete"
  /\ resp.status = 200
  /\ resp.removed
  /\ ~docs[resp.id].exists
  /\ blobs = {}

\* C19: a bucket that rejects the deletion of a blob does not fail the request
\* that asked for it.  With every other call taken, a delete is still
\* answered 200 and removes the record, a delete of the image is still
\* answered 200 and removes the imageUrl field, and an update with a new file
\* still uploads the file, writes the record with the new imageUrl and is
\* answered 200.
C19_BlobDeletionFailureSwallowed ==
  [][\A id \in EventIds :
       ( /\ resp'.op \in MutatingOps
         /\ Authenticated(resp'.client)
         /\ StoredImage(id) ) =>
         /\ Delete(resp'.client, id, TRUE, FALSE, TRUE)
              => /\ resp'.status = 200
                 /\ ~docs'[id].exists
         /\ DeleteImage(resp'.client, id, TRUE, FALSE, TRUE)
              => /\ resp'.status = 200
                 /\ docs'[id].exists
                 /\ docs'[id].imageUrl = NoImage
         /\ \A file \in Files \ {NoFile}, startTime \in StartTimes :
              ( /\ TimestampFromText(resp'.date) # Throw
                /\ Update(resp'.client, id, resp'.title, resp'.date, startTime,
                          file, TRUE, FALSE, "ok", TRUE) )
              => /\ resp'.status = 200
                 /\ uniqueFilename(now, file) \in blobs'
                 /\ docs'[id].imageUrl = PublicUrl(uniqueFilename(now, file))]_vars

\* An update with a new file was answered 200 although the bucket rejected the
\* deletion of the old image; the record has the new image, the old blob is
\* still in the bucket.
C19_Witness ==
  /\ resp.op = "update"
  /\ resp.status = 200
  /\ resp.warned
  /\ StoredImage(resp.id)
  /\ docs[resp.id].imageUrl.object \in blobs
  /\ Cardinality(blobs) = 2

\* C20: every stored record that has an imageUrl refers to a blob that is in
\* the bucket, also after requests during which an upload or a store write
\* failed.
C20_ImagesExist ==
  \A id \in EventIds :
    StoredImage(id) => docs[id].imageUrl.object \in blobs

\* C21: a delete of the image by an authenticated client, with the store
\* taking its calls: for a record with an image it is answered 200, asks the
\* bucket to delete the blob and removes the imageUrl field, every other
\* field and every other record staying as it was; for a record without an
\* image it is answered 200 and changes neither the store nor the bucket; for
\* an id without a record it is answered 404 and changes nothing.
C21_DeleteImageFrame ==
  [][\A id \in EventIds :
       ( /\ resp'.op \in MutatingOps
         /\ Authenticated(resp'.client)
         /\ \E deleted \in BOOLEAN :
              DeleteImage(resp'.client, id, TRUE, deleted, TRUE) )
       => /\ nextId' = nextId
          /\ \A other \in EventIds \ {id} : docs'[other] = docs[other]
          /\ IF ~docs[id].exists
             THEN /\ resp'.status = 404
                  /\ docs' = docs
                  /\ blobs' = blobs
             ELSE IF ~HasImage(docs[id].imageUrl)
             THEN /\ resp'.status = 200
                  /\ docs' = docs
                  /\ blobs' = blobs
                  /\ ~resp'.warned
                  /\ ~resp'.removed
             ELSE /\ resp'.status = 200
                  /\ docs'[id] = [docs[id] EXCEPT !.imageUrl = NoImage]
                  /\ resp'.warned \/ resp'.removed
                  /\ resp'.removed => blobs' = blobs \ {docs[id].imageUrl.object}
                  /\ resp'.warned => blobs' = blobs]_vars

\* The image of a record was deleted: the record is stored without an
\* imageUrl, with its title and date, and the blob is gone.
C21_Witness ==
  /\ resp.op = "deleteImage"
  /\ resp.status = 200
  /\ resp.removed
  /\ docs[resp.id].exists
  /\ docs[resp.id].imageUrl = NoImage
  /\ docs[resp.id].title = <<"F">>
  /\ blobs = {}

\* C22: two uploads never get the same object name, so that no two stored
\* records have the same imageUrl and no upload replaces the blob of another
\* record.
C22_UploadNamesUnique ==
  \A id \in EventIds, other \in EventIds :
    (id # other /\ StoredImage(id) /\ StoredImage(other))
      => docs[id].imageUrl # docs[other].imageUrl

\* The zero-padded YYYY-MM-DD text of year y, month m and day d.
PaddedYmd(y, m, d) ==
  PadStart(NumText(y), 4) \o <<"-">> \o PadStart(NumText(m), 2)
    \o <<"-">> \o PadStart(NumText(d), 2)

\* C23: for a year above 1900, a month of 1..12 and a day of 1..31, the Date
\* Normalizer gives the zero-padded YYYY-MM-DD text of that day for the day
\* written D.M.YYYY, YYYY-M-D and M/D/YYYY, with and without leading zeros:
\* one and the same text for all representations.
C23_SameDayAllForms ==
  \A form \in CellForms, y \in CellYears, m \in CellMonths, d \in CellDays,
     padded \in BOOLEAN :
    ( /\ resp.op = "sortableDate"
      /\ resp.date = CellText(form, y, m, d, padded)
      /\ y > 1900 /\ m >= 1 /\ m <= 12 /\ d >= 1 /\ d <= 31 )
    => resp.result = PaddedYmd(y, m, d)

\* The normalizer has read 2/1/2025 as the first of February.
C23_Witness ==
  /\ resp.op = "sortableDate"
  /\ resp.date = CellText("mdy", 2025, 2, 1, FALSE)
  /\ resp.result = <<"2", "0", "2", "5", "-", "0", "2", "-", "0", "1">>

\* A sheet row with a title and a date cell that the import can parse.
RowConforms(row) ==
  /\ Len(row) >= 2
  /\ Cell(row, 2) # <<>>
  /\ parseSheetDate(Cell(row, 1)) # <<>>

\* C24: every record the import writes has a non-empty title and a non-null
\* eventDate, and the import writes a record for those rows only that have a
\* title and a date that can be parsed.
C24_ImportConforms ==
  [][\A rows \in ListSheets :
       importData(rows, TRUE)
         => /\ \A id \in EventIds :
                 (docs'[id].exists /\ ~docs[id].exists)
                   => /\ docs'[id].title \notin {Undefined, <<>>}
                      /\ docs'[id].eventDate # NullTimestamp
            /\ nextId' - nextId
                 = Cardinality({k \in DOMAIN rows : RowConforms(rows[k])})]_vars

\* A reference that starts with the URL prefix of the bucket and has an
\* object name after it.
OwnObject(fileUrl) ==
  /\ fileUrl.kind = "url"
  /\ fileUrl.bucket = GCS_BUCKET_NAME
  /\ fileUrl.object # <<>>

C26_DocumentBeforeBlob ==
  [][resp'.op = "delete"
       => \A id \in EventIds :
            ( /\ StoredImage(id)
              /\ docs[id].imageUrl.object \in blobs
              /\ docs'[id].exists )
            => docs[id].imageUrl.object \in blobs']_vars

\* What the last strategy, new Date(text), gives for a text: the date text
\* of the day it reads, or 'no date'.
GenericDate(text) ==
  LET pd == NewDate(Trim(text))
  IN IF pd = <<>> THEN Null
     ELSE LET c == CivilFromDays(pd[1]) IN PaddedYmd(c[1], c[2], c[3])

\* C27: the Date Normalizer takes the first strategy that succeeds, in the
\* order D.M.YYYY, YYYY-M-D, M/D/YYYY, generic parsing.  A text of one of the
\* three numeric patterns with components in range gets the reading of its
\* pattern, whatever the generic parsing would make of it; with a component out
\* of range (year <= 1900, month outside 1..12, day outside 1..31) the
\* pattern does not take it and the text goes on to the generic parsing; a
\* text that no strategy takes gives 'no date', and no call ends in an
\* error.
C27_StrategyOrder ==
  resp.op = "sortableDate"
    => /\ \A form \in CellForms, y \in CellYears, m \in CellMonths,
             d \in CellDays, padded \in BOOLEAN :
            resp.date = CellText(form, y, m, d, padded)
              => IF y > 1900 /\ m >= 1 /\ m <= 12 /\ d >= 1 /\ d <= 31
                 THEN resp.result = PaddedYmd(y, m, d)
                 ELSE resp.result = GenericDate(resp.date)
       /\ resp.date \in {Undefined, <<>>, NotADate} => resp.result = Null
       /\ resp.result = Null \/ Len(resp.result) = 10

\* 1.13.2025 is no day.month.year (month 13); the generic parsing has read it
\* as the 13th of January.
C27_Witness ==
  /\ resp.op = "sortableDate"
  /\ resp.date = CellText("dmy", 2025, 13, 1, FALSE)
  /\ resp.result = <<"2", "0", "2", "5", "-", "0", "1", "-", "1", "3">>

\* C28: a create or update request that is answered 400 leaves the event
\* store and the bucket as they were, also when it carries a file and the
\* date of its body does not convert.
C28_BadRequestNoEffect ==
  [][(resp'.op \in BodyOps /\ resp'.status = 400)
       => /\ docs' = docs
          /\ nextId' = nextId
          /\ blobs' = blobs]_vars

\* C29: when an update and a delete of the same id run at the same time, in
\* any interleaving of their store and bucket calls, a record that the delete
\* has removed stays absent: the write of the update does not bring it back
\* but fails (the update is answered 500), and the list does not hold the id.
C29_DeletedStaysAbsent ==
  [][/\ \A id \in EventIds :
          (id <= nextId /\ ~docs[id].exists)
            => /\ ~docs'[id].exists
               /\ \A k \in DOMAIN ListEvents(docs') : ListEvents(docs')[k].id # id
     /\ ( /\ pending.put.pc = "update"
          /\ pending'.put.pc = "idle"
          /\ ~docs[pending.put.id].exists )
        => /\ resp'.op = "update"
           /\ resp'.status = 500
           /\ docs' = docs]_vars

\* An update without a file found its record, a delete of the same id removed
\* the record before the update wrote, and the update was answered 500.
C29_Witness ==
  /\ resp.op = "update"
  /\ resp.status = 500
  /\ pending.put.pc = "idle"
  /\ pending.put.found
  /\ pending.put.file = NoFile
  /\ pending.del.pc = "idle"
  /\ pending.del.found
  /\ pending.del.id = pending.put.id
  /\ ~docs[resp.id].exists

\* C30: the two date parsers agree on every text: parseSheetDate of the import
\* gives a date exactly when parseAndFormatDate of the spreadsheet server
\* gives one, and then both give the same calendar day.
C30_ParsersAgree ==
  /\ resp.op = "parsedDate"
       => LET sortable == parseAndFormatDate(resp.date)
          IN /\ resp.result = <<>> <=> sortable = Null
             /\ resp.result # <<>> => IsoDateText(resp.result[1]) = sortable
  /\ resp.op = "sortableDate"
       => LET parsed == parseSheetDate(resp.date)
          IN /\ resp.result = Null <=> parsed = <<>>
             /\ resp.result # Null => resp.result = IsoDateText(parsed[1])

====
